---- MODULE Spec2Model ----
(***************************************************************************)
(* State machine of the SeeThePlay dashboard (frontend/src/App.js): the    *)
(* websocket message handlers that reconcile game state, forecasts, live   *)
(* events and the scenario banner, the lineup evaluator with its local     *)
(* heuristic, and the values the prediction cards display.                 *)
(*                                                                         *)
(* Units: confidences and probabilities are in tenths (10 = 1.0), win      *)
(* probabilities in tenths of a percent (500 = 50.0%), time in seconds.    *)
(***************************************************************************)
EXTENDS Integers, Sequences, FiniteSets, TLC

\* null and undefined: "null" for strings, None for objects and arrays, which
\* are held as Some(value)
NULL == "null"
None == <<>>
Some(v) == <<v>>

\* ---------------------------------------------------------------- bounds
MaxEventId == 6
MaxPlayerId == 2
MaxOutbox == 1
MaxTime == 7
MaxTimers == 2
MaxChat == 3

\* ------------------------------------------------------- program constants
MaxLiveEvents == 5
ScenarioDelay == 5

VARIABLES
    mounted,        \* the connection effect has run
    unmounted,      \* the component has been torn down
    socket,         \* lifecycle of the WebSocket the effect opened
    wsRef,          \* wsRef.current
    ws,             \* the ws state variable
    isConnected,
    capturedPredictions, \* the predictions array the message handler closed over
    gameState,
    awaitingReset,  \* history: a finished tick was handled and no GameState applied since
    predictions,
    liveEvents,
    outbox,         \* payloads handed to socket.send, not yet read by the server
    scenario,
    timers,         \* deadlines of the pending setTimeout callbacks, oldest first
    clock,          \* the virtual clock, in seconds
    lastScenarioAt, \* history: clock value at the latest scenario_update, -1 if none
    lastStep,       \* history: the handler branch that produced this state
    chatMessages,
    currentQuestion,
    selectedPlayer, \* 0 stands for null
    isAssistantThinking,
    unanswered,     \* history: questions sent and not yet answered
    playHomeTeam,
    playAwayTeam,
    homeLineup,
    awayLineup,
    evaluationResult,
    evaluatingLineup,
    evalPc,         \* where the evaluateLineup call in flight is suspended
    evalHome,       \* homeLineup as captured by the call in flight
    evalAway,       \* awayLineup as captured by the call in flight
    evalRes,        \* evaluateLineup's res once the server call has settled
    homePreds,      \* localEvaluateLineup's homePreds once its fetches have settled
    resetSinceEvaluate  \* clearLineup has run and evaluateLineup has not been called since

connVars == <<mounted, unmounted, socket, wsRef, ws, isConnected, capturedPredictions>>
streamVars == <<gameState, awaitingReset, predictions, liveEvents>>
chatVars == <<chatMessages, currentQuestion, selectedPlayer, isAssistantThinking, unanswered>>
scenarioVars == <<scenario, timers, lastScenarioAt>>
dashboardVars == <<connVars, streamVars, outbox, scenarioVars, clock, chatVars>>
playgroundVars == <<playHomeTeam, playAwayTeam, homeLineup, awayLineup, evaluationResult,
                    evaluatingLineup, evalPc, evalHome, evalAway, evalRes, homePreds,
                    resetSinceEvaluate>>
vars == <<mounted, unmounted, socket, wsRef, ws, isConnected, capturedPredictions, gameState,
          awaitingReset, predictions, liveEvents,
          outbox, scenario, timers, clock, lastScenarioAt, lastStep,
          chatMessages, currentQuestion, selectedPlayer, isAssistantThinking, unanswered,
          playHomeTeam, playAwayTeam, homeLineup, awayLineup, evaluationResult,
          evaluatingLineup, evalPc, evalHome, evalAway, evalRes, homePreds,
          resetSinceEvaluate>>

\* ------------------------------------------------------------- data model
initialGameState ==
    [quarter |-> 1, time_remaining |-> "15:00",
     home_team |-> "Philadelphia Eagles", away_team |-> "Generic Opponents",
     home_score |-> 0, away_score |-> 0]

\* game_state payloads the server may put in a message
GameStates ==
    [quarter : {1, 4}, time_remaining : {"15:00", "0:00"},
     home_team : {"Philadelphia Eagles", "Dallas Cowboys"},
     away_team : {"Generic Opponents"},
     home_score : {0, 7}, away_score : {0}]

\* IsFinished looking at the quarter alone
IsFinishedAnyClock(gs) == gs.quarter = 4

\* message.game_state.quarter === 4 && message.game_state.time_remaining === '0:00'
IsFinished(gs) == gs.quarter = 4 /\ gs.time_remaining = "0:00"

PlayerIds == 1..MaxPlayerId
EventIds == 1..MaxEventId

PlayerName(p) == <<"player", p>>

\* the `prediction` object of one player
Prediction(p, v, oc, c, po) ==
    [player_id |-> p, player_name |-> PlayerName(p), predicted_value |-> v,
     overall_confidence |-> oc, confidence |-> c, probability_over |-> po]

\* one element of the predictions array
Item(pred, expl) == [prediction |-> pred, explanation |-> expl]

LiveEvent(i) == [id |-> i]

PLAY_POSITIONS == <<"QB", "RB", "WR1", "WR2", "TE", "K", "DEF">>
Positions == {PLAY_POSITIONS[i] : i \in 1..Len(PLAY_POSITIONS)}

\* PLAY_POSITIONS.reduce((acc, p) => ({ ...acc, [p]: null }), {})
EmptyLineup == [p \in Positions |-> None]

\* ---------------------------------------------------------------- helpers
\* prev.some(e => e.id === id)
HasEvent(prev, id) == \E i \in 1..Len(prev) : prev[i].id = id

\* arr.slice(0, n)
Slice(arr, n) == IF Len(arr) <= n THEN arr ELSE SubSeq(arr, 1, n)

\* prev.findIndex(p => p.prediction.player_id === id); 0 stands for -1
FindIndex(prev, id) ==
    IF \E i \in 1..Len(prev) : prev[i].prediction.player_id = id
    THEN CHOOSE i \in 1..Len(prev) :
            /\ prev[i].prediction.player_id = id
            /\ \A j \in 1..(i - 1) : prev[j].prediction.player_id # id
    ELSE 0

\* AddLiveEvent without the identifier check
AddLiveEventNoDedup(prev, newEvent) == Slice(<<newEvent>> \o prev, MaxLiveEvents)

\* AddLiveEvent moving an event it already holds to the front
AddLiveEventMoveToFront(prev, newEvent) ==
    Slice(<<newEvent>> \o SelectSeq(prev, LAMBDA e : e.id # newEvent.id), MaxLiveEvents)

\* AddLiveEvent keeping the list oldest first
AddLiveEventOldestFirst(prev, newEvent) ==
    IF HasEvent(prev, newEvent.id) THEN prev
    ELSE IF Len(prev) < MaxLiveEvents THEN Append(prev, newEvent)
    ELSE Append(Tail(prev), newEvent)

\* the updater passed to setLiveEvents
AddLiveEvent(prev, newEvent) ==
    IF HasEvent(prev, newEvent.id) THEN prev
    ELSE Slice(<<newEvent>> \o prev, MaxLiveEvents)

\* ReplacePrediction inserting a record for a player it does not find
ReplacePredictionUpsert(prev, updated_prediction, explanation) ==
    LET playerIndex == FindIndex(prev, updated_prediction.player_id)
    IN  IF playerIndex >= 1
        THEN [prev EXCEPT ![playerIndex] = Item(updated_prediction, explanation)]
        ELSE Append(prev, Item(updated_prediction, explanation))

\* the updater passed to setPredictions by live_update
ReplacePrediction(prev, updated_prediction, explanation) ==
    LET playerIndex == FindIndex(prev, updated_prediction.player_id)
    IN  IF playerIndex >= 1
        THEN [prev EXCEPT ![playerIndex] = Item(updated_prediction, explanation)]
        ELSE prev

\* CanSend without the readyState test
CanSendAnyReadyState == wsRef # NULL

\* safeSend: transmits only through an open socket held in wsRef.current
CanSend == wsRef # NULL /\ socket = "open"
SafeSend(payload) == IF CanSend THEN Append(outbox, payload) ELSE outbox

\* ------------------------------------------------------------------- init
Init ==
    /\ mounted = FALSE
    /\ unmounted = FALSE
    /\ socket = "none"
    /\ wsRef = NULL
    /\ ws = NULL
    /\ isConnected = FALSE
    /\ capturedPredictions = <<>>
    /\ gameState = None
    /\ awaitingReset = FALSE
    /\ predictions = <<>>
    /\ liveEvents = <<>>
    /\ outbox = <<>>
    /\ scenario = None
    /\ timers = <<>>
    /\ clock = 0
    /\ lastScenarioAt = -1
    /\ lastStep = "init"
    /\ chatMessages = <<>>
    /\ currentQuestion = ""
    /\ selectedPlayer = 0
    /\ isAssistantThinking = FALSE
    /\ unanswered = 0
    /\ playHomeTeam = NULL
    /\ playAwayTeam = NULL
    /\ homeLineup = EmptyLineup
    /\ awayLineup = EmptyLineup
    /\ evaluationResult = None
    /\ evaluatingLineup = FALSE
    /\ evalPc = "idle"
    /\ evalHome = EmptyLineup
    /\ evalAway = EmptyLineup
    /\ evalRes = None
    /\ homePreds = <<>>
    /\ resetSinceEvaluate = FALSE

\* ---------------------------------------------------------------- actions
\* the connection effect: initializeDashboard
Mount(transport) ==
    /\ ~mounted
    /\ mounted' = TRUE
    /\ lastStep' = "mount"
    /\ gameState' = Some(initialGameState)
    /\ isConnected' = FALSE
    /\ capturedPredictions' = predictions
    /\ IF transport
       THEN socket' = "connecting" /\ wsRef' = "websocket" /\ ws' = "websocket"
       ELSE socket' = "none" /\ wsRef' = NULL /\ ws' = NULL
    /\ UNCHANGED <<unmounted, awaitingReset, predictions, liveEvents, outbox, scenarioVars, clock>>
    /\ UNCHANGED <<playgroundVars, chatVars>>

OnOpen ==
    /\ socket = "connecting"
    /\ socket' = "open"
    /\ lastStep' = "open"
    /\ isConnected' = IF unmounted THEN isConnected ELSE TRUE
    /\ wsRef' = "websocket"
    /\ ws' = IF unmounted THEN ws ELSE "websocket"
    /\ UNCHANGED <<mounted, unmounted, capturedPredictions, streamVars, outbox, scenarioVars, clock>>
    /\ UNCHANGED <<playgroundVars, chatVars>>

\* OnError leaving the status as it was
OnErrorKeepingStatus ==
    /\ socket \in {"connecting", "open"}
    /\ socket' = "errored"
    /\ lastStep' = "error"
    /\ UNCHANGED <<mounted, unmounted, wsRef, ws, isConnected, capturedPredictions, streamVars, outbox,
                   scenarioVars, clock>>
    /\ UNCHANGED <<playgroundVars, chatVars>>

\* the error event; the browser has already moved the socket to CLOSED and
\* fires the close event next
OnError ==
    /\ socket \in {"connecting", "open"}
    /\ socket' = "errored"
    /\ lastStep' = "error"
    /\ isConnected' = IF unmounted THEN isConnected ELSE FALSE
    /\ UNCHANGED <<mounted, unmounted, wsRef, ws, capturedPredictions, streamVars, outbox, scenarioVars, clock>>
    /\ UNCHANGED <<playgroundVars, chatVars>>

OnClose ==
    /\ socket \in {"connecting", "open", "errored"}
    /\ socket' = "closed"
    /\ lastStep' = "close"
    /\ isConnected' = IF unmounted THEN isConnected ELSE FALSE
    /\ wsRef' = NULL
    /\ ws' = IF unmounted THEN ws ELSE NULL
    /\ UNCHANGED <<mounted, unmounted, capturedPredictions, streamVars, outbox, scenarioVars, clock>>
    /\ UNCHANGED <<playgroundVars, chatVars>>

\* the component unmounts. The effect callback returns nothing: the function
\* that closes the socket is the value the async initializeDashboard resolves
\* to, and the effect drops that promise, so React has no cleanup to run. The
\* socket, its handlers and wsRef stay as they are; React ignores the state
\* updates the handlers make from then on, which is why onopen, onerror and
\* onclose write isConnected and ws only while mounted.
Unmount ==
    /\ mounted
    /\ ~unmounted
    /\ unmounted' = TRUE
    /\ lastStep' = "unmount"
    /\ UNCHANGED <<mounted, socket, wsRef, ws, isConnected, capturedPredictions, streamVars,
                   outbox, scenarioVars, clock>>
    /\ UNCHANGED <<playgroundVars, chatVars>>

\* tick; game_state = None stands for a tick without a game_state
OnTick(game_state) ==
    /\ socket = "open"
    /\ IF game_state # None
       THEN IF IsFinished(game_state[1])
            THEN /\ Len(outbox) < MaxOutbox
                 /\ outbox' = SafeSend([type |-> "game_reset", data |-> initialGameState])
                 /\ UNCHANGED gameState
                 /\ awaitingReset' = TRUE
                 /\ lastStep' = "tick_finished"
            ELSE /\ gameState' = game_state
                 /\ awaitingReset' = FALSE
                 /\ UNCHANGED outbox
                 /\ lastStep' = "tick_applied"
       ELSE UNCHANGED <<gameState, awaitingReset, outbox>> /\ lastStep' = "tick_ignored"
    /\ UNCHANGED <<connVars, predictions, liveEvents, scenarioVars, clock>>
    /\ UNCHANGED <<playgroundVars, chatVars>>

\* OnGameInitialized merging the list into the records already held
OnGameInitializedMerging(game_state, initial_predictions) ==
    /\ socket = "open"
    /\ gameState' = game_state
    /\ awaitingReset' = FALSE
    /\ IF initial_predictions # None /\ Len(initial_predictions[1]) > 0
       THEN predictions' = predictions \o initial_predictions[1]
       ELSE UNCHANGED predictions
    /\ lastStep' = "game_initialized"
    /\ UNCHANGED <<connVars, liveEvents, outbox, scenarioVars, clock>>
    /\ UNCHANGED <<playgroundVars, chatVars>>

\* game_initialized; initial_predictions = None stands for an absent list
OnGameInitialized(game_state, initial_predictions) ==
    /\ socket = "open"
    /\ gameState' = game_state
    /\ awaitingReset' = FALSE
    /\ IF initial_predictions # None /\ Len(initial_predictions[1]) > 0
       THEN /\ predictions' = initial_predictions[1]
            /\ lastStep' = IF predictions # <<>> /\ predictions # initial_predictions[1]
                           THEN "game_initialized_replaced" ELSE "game_initialized"
       ELSE /\ UNCHANGED predictions
            /\ lastStep' = "game_initialized_kept"
    /\ UNCHANGED <<connVars, liveEvents, outbox, scenarioVars, clock>>
    /\ UNCHANGED <<playgroundVars, chatVars>>

\* live_update; updated_prediction = None stands for an absent field.  A
\* message without an event raises on message.event.id after setGameState
\* has run; the outer catch swallows the error.
OnLiveUpdate(game_state, event, updated_prediction, explanation) ==
    /\ socket = "open"
    /\ gameState' = game_state
    /\ awaitingReset' = FALSE
    /\ IF event = None
       THEN /\ UNCHANGED <<liveEvents, predictions>>
            /\ lastStep' = "live_update_raised"
       ELSE /\ liveEvents' = AddLiveEvent(liveEvents, LiveEvent(event[1].id))
            /\ IF updated_prediction # None
               THEN /\ predictions' = ReplacePrediction(predictions, updated_prediction[1], explanation)
                    /\ lastStep' = IF FindIndex(predictions, updated_prediction[1].player_id) >= 1
                                   THEN IF HasEvent(liveEvents, event[1].id)
                                        THEN "live_update_duplicate_replaced"
                                        ELSE "live_update_replaced"
                                   ELSE "live_update_dropped"
               ELSE /\ UNCHANGED predictions
                    /\ lastStep' = IF HasEvent(liveEvents, event[1].id)
                                   THEN "live_update_duplicate"
                                   ELSE IF Len(liveEvents) = MaxLiveEvents
                                        THEN "live_update_evicted"
                                        ELSE "live_update"
    /\ UNCHANGED <<connVars, outbox, scenarioVars, clock>>
    /\ UNCHANGED <<playgroundVars, chatVars>>

\* the server reads the oldest payload the client sent
ServerReceive ==
    /\ outbox # <<>>
    /\ outbox' = Tail(outbox)
    /\ lastStep' = "server_receive"
    /\ UNCHANGED <<connVars, streamVars, scenarioVars, clock>>
    /\ UNCHANGED <<playgroundVars, chatVars>>

\* OnScenarioUpdate without the setTimeout
OnScenarioUpdateNoTimer(sc, updated_predictions) ==
    /\ socket = "open"
    /\ scenario' = sc
    /\ IF updated_predictions # None
       THEN predictions' = updated_predictions[1]
       ELSE UNCHANGED predictions
    /\ lastScenarioAt' = clock
    /\ lastStep' = "scenario_update"
    /\ UNCHANGED <<connVars, gameState, awaitingReset, liveEvents, outbox, clock, timers>>
    /\ UNCHANGED <<playgroundVars, chatVars>>

\* OnScenarioUpdate treating an empty list like an absent one
OnScenarioUpdateNonEmptyOnly(sc, updated_predictions) ==
    /\ socket = "open"
    /\ Len(timers) < MaxTimers
    /\ scenario' = sc
    /\ IF updated_predictions # None /\ Len(updated_predictions[1]) > 0
       THEN predictions' = updated_predictions[1]
       ELSE UNCHANGED predictions
    /\ timers' = Append(timers, clock + ScenarioDelay)
    /\ lastScenarioAt' = clock
    /\ lastStep' = "scenario_update"
    /\ UNCHANGED <<connVars, gameState, awaitingReset, liveEvents, outbox, clock>>
    /\ UNCHANGED <<playgroundVars, chatVars>>

\* scenario_update; updated_predictions = None stands for an absent list (an
\* empty list is truthy and replaces the set)
OnScenarioUpdate(sc, updated_predictions) ==
    /\ socket = "open"
    /\ Len(timers) < MaxTimers
    /\ scenario' = sc
    /\ IF updated_predictions # None
       THEN /\ predictions' = updated_predictions[1]
            /\ lastStep' = IF predictions # <<>> /\ updated_predictions[1] = <<>>
                           THEN "scenario_update_emptied" ELSE "scenario_update_replaced"
       ELSE /\ UNCHANGED predictions
            /\ lastStep' = "scenario_update"
    /\ timers' = Append(timers, clock + ScenarioDelay)
    /\ lastScenarioAt' = clock
    /\ UNCHANGED <<connVars, gameState, awaitingReset, liveEvents, outbox, clock>>
    /\ UNCHANGED <<playgroundVars, chatVars>>

\* the callback of setTimeout(() => setScenario(null), 5000)
ScenarioTimeout ==
    /\ timers # <<>>
    /\ Head(timers) <= clock
    /\ scenario' = None
    /\ timers' = Tail(timers)
    /\ lastStep' = IF scenario = None THEN "scenario_timeout_idle" ELSE "scenario_timeout"
    /\ UNCHANGED <<connVars, streamVars, outbox, clock, lastScenarioAt>>
    /\ UNCHANGED <<playgroundVars, chatVars>>

\* one second passes; a timer that is due runs before the clock moves on
AdvanceClock ==
    /\ clock < MaxTime
    /\ IF timers = <<>> THEN TRUE ELSE Head(timers) > clock
    /\ clock' = clock + 1
    /\ lastStep' = "clock"
    /\ UNCHANGED <<connVars, streamVars, outbox, scenarioVars>>
    /\ UNCHANGED <<playgroundVars, chatVars>>

\* OnParseFailure closing the connection
OnParseFailureClosing(data) ==
    /\ socket = "open"
    /\ socket' = "closed"
    /\ isConnected' = FALSE
    /\ lastStep' = "parse_failed"
    /\ UNCHANGED <<mounted, unmounted, wsRef, ws, capturedPredictions, streamVars, outbox, scenarioVars,
                   clock, chatVars, playgroundVars>>

\* JSON.parse(event.data) throws: the handler logs and returns before it
\* looks at the message
OnParseFailure(data) ==
    /\ socket = "open"
    /\ lastStep' = "parse_failed"
    /\ UNCHANGED <<dashboardVars, playgroundVars>>

\* OnUnknownType treating any message as the end of composing
OnUnknownTypeClearing(type) ==
    /\ socket = "open"
    /\ isAssistantThinking' = FALSE
    /\ lastStep' = "unknown_type"
    /\ UNCHANGED <<connVars, streamVars, outbox, scenarioVars, clock, chatMessages,
                   currentQuestion, selectedPlayer, unanswered, playgroundVars>>

\* a message whose type matches none of the branches: the handler logs it and
\* falls through the if / else-if chain
OnUnknownType(type) ==
    /\ socket = "open"
    /\ lastStep' = "unknown_type"
    /\ UNCHANGED <<dashboardVars, playgroundVars>>

\* --------------------------------------------------- scenario controller
\* Severity with one value for every trigger
SeverityUniform(scenarioType) == 20

\* handleScenarioChange showing the scenario before the server confirms it
handleScenarioChangeOptimistic(scenarioType) ==
    /\ wsRef # NULL
    /\ Len(outbox) < MaxOutbox
    /\ outbox' = SafeSend([type |-> "scenario_change", data |-> [type |-> scenarioType]])
    /\ scenario' = Some([description |-> scenarioType])
    /\ lastStep' = "scenario_change_sent"
    /\ UNCHANGED <<connVars, streamVars, timers, lastScenarioAt, clock, chatVars, playgroundVars>>

\* severity in hundredths: scenarioType === 'weather_change' ? 0.15 : 0.2
Severity(scenarioType) == IF scenarioType = "weather_change" THEN 15 ELSE 20

handleScenarioChange(scenarioType) ==
    /\ IF wsRef = NULL
       THEN /\ UNCHANGED outbox
            /\ lastStep' = "scenario_change_no_socket"
       ELSE /\ Len(outbox) < MaxOutbox
            /\ outbox' = SafeSend([type |-> "scenario_change",
                                   data |-> [type |-> scenarioType,
                                             severity |-> Severity(scenarioType)]])
            /\ lastStep' = IF CanSend THEN "scenario_change_sent"
                           ELSE "scenario_change_not_sent"
    /\ UNCHANGED <<connVars, streamVars, scenarioVars, clock, chatVars, playgroundVars>>

\* ------------------------------------------------------------------ chat
\* a click on the prediction card of player p: selects it, or clears the
\* selection when it is the selected one
SetSelectedPlayer(p) ==
    /\ \E i \in 1..Len(predictions) : predictions[i].prediction.player_id = p
    /\ selectedPlayer' = IF selectedPlayer = p THEN 0 ELSE p
    /\ lastStep' = "select_player"
    /\ UNCHANGED <<connVars, streamVars, outbox, scenarioVars, clock, chatMessages,
                   currentQuestion, isAssistantThinking, unanswered, playgroundVars>>

\* typing into the question input
SetCurrentQuestion(q) ==
    /\ currentQuestion' = q
    /\ lastStep' = "type_question"
    /\ UNCHANGED <<connVars, streamVars, outbox, scenarioVars, clock, chatMessages,
                   selectedPlayer, isAssistantThinking, unanswered, playgroundVars>>

\* String.prototype.trim on the questions the input may hold
Trim(q) == IF q = "   " THEN "" ELSE q

\* list.find(p => p.prediction.player_id === id)?.prediction?.player_name || null
FindPlayerName(list, id) ==
    IF FindIndex(list, id) >= 1
    THEN Some(list[FindIndex(list, id)].prediction.player_name)
    ELSE None

\* the player name handleChatSubmit resolves for the user message
ResolvedPlayerName ==
    IF selectedPlayer # 0 THEN FindPlayerName(predictions, selectedPlayer)
    ELSE IF Len(predictions) > 0 THEN Some(predictions[1].prediction.player_name)
    ELSE None

\* QuestionPlayerId ignoring the selection
QuestionPlayerIdFirstRecord ==
    IF Len(predictions) > 0 THEN predictions[1].prediction.player_id ELSE 0

\* selectedPlayer || predictions[0]?.prediction?.player_id; 0 stands for undefined
QuestionPlayerId ==
    IF selectedPlayer # 0 THEN selectedPlayer
    ELSE IF Len(predictions) > 0 THEN predictions[1].prediction.player_id
    ELSE 0

\* handleChatSubmit without the two socket guards
handleChatSubmitAnySocket ==
    /\ IF Trim(currentQuestion) = ""
       THEN /\ UNCHANGED <<outbox, chatVars>>
            /\ lastStep' = "chat_submit_ignored"
       ELSE /\ Len(outbox) < MaxOutbox
            /\ Len(chatMessages) < MaxChat
            /\ chatMessages' = Append(chatMessages,
                                      [type |-> "user", text |-> currentQuestion,
                                       playerName |-> ResolvedPlayerName,
                                       playerId |-> QuestionPlayerId])
            /\ outbox' = SafeSend([type |-> "cedar_question", question |-> currentQuestion,
                                   player_id |-> QuestionPlayerId])
            /\ isAssistantThinking' = TRUE
            /\ currentQuestion' = ""
            /\ unanswered' = IF CanSend THEN unanswered + 1 ELSE unanswered
            /\ UNCHANGED selectedPlayer
            /\ lastStep' = "chat_submitted"
    /\ UNCHANGED <<connVars, streamVars, scenarioVars, clock, playgroundVars>>

handleChatSubmit ==
    /\ IF Trim(currentQuestion) = "" \/ ws = NULL \/ socket # "open"
       THEN /\ UNCHANGED <<outbox, chatVars>>
            /\ lastStep' = "chat_submit_ignored"
       ELSE /\ Len(outbox) < MaxOutbox
            /\ Len(chatMessages) < MaxChat
            /\ chatMessages' = Append(chatMessages,
                                      [type |-> "user", text |-> currentQuestion,
                                       playerName |-> ResolvedPlayerName,
                                       playerId |-> QuestionPlayerId])
            /\ outbox' = SafeSend([type |-> "cedar_question", question |-> currentQuestion,
                                   player_id |-> QuestionPlayerId])
            /\ isAssistantThinking' = TRUE
            /\ currentQuestion' = ""
            /\ unanswered' = IF CanSend THEN unanswered + 1 ELSE unanswered
            /\ UNCHANGED selectedPlayer
            /\ lastStep' = "chat_submitted"
    /\ UNCHANGED <<connVars, streamVars, scenarioVars, clock, playgroundVars>>

\* OnCedarAnswer dropping an answer about a player that is not the selected one
OnCedarAnswerSelectedOnly(player_name, player_id, answer) ==
    /\ socket = "open"
    /\ Len(chatMessages) < MaxChat
    /\ IF player_id = selectedPlayer
       THEN /\ chatMessages' = Append(chatMessages,
                                      [type |-> "assistant", text |-> answer,
                                       playerName |-> player_name, playerId |-> player_id])
            /\ isAssistantThinking' = FALSE
       ELSE UNCHANGED <<chatMessages, isAssistantThinking>>
    /\ unanswered' = IF unanswered > 0 THEN unanswered - 1 ELSE 0
    /\ lastStep' = "cedar_answer"
    /\ UNCHANGED <<connVars, streamVars, outbox, scenarioVars, clock, currentQuestion,
                   selectedPlayer, playgroundVars>>

\* cedar_answer; player_name = None and player_id = 0 stand for absent
\* fields.  The lookup reads the predictions array of the render in which
\* the connection effect ran.
OnCedarAnswer(player_name, player_id, answer) ==
    /\ socket = "open"
    /\ Len(chatMessages) < MaxChat
    /\ LET playerName == IF player_name # None THEN player_name
                         ELSE IF player_id # 0
                              THEN FindPlayerName(capturedPredictions, player_id)
                              ELSE None
       IN  chatMessages' = Append(chatMessages,
                                  [type |-> "assistant",
                                   text |-> IF answer = "" THEN "No answer available."
                                            ELSE answer,
                                   playerName |-> playerName,
                                   playerId |-> player_id])
    /\ isAssistantThinking' = FALSE
    /\ unanswered' = IF unanswered > 0 THEN unanswered - 1 ELSE 0
    /\ lastStep' = "cedar_answer"
    /\ UNCHANGED <<connVars, streamVars, outbox, scenarioVars, clock, currentQuestion,
                   selectedPlayer, playgroundVars>>

\* ------------------------------------------------------ lineup evaluator
Max(a, b) == IF a >= b THEN a ELSE b
Min(a, b) == IF a <= b THEN a ELSE b

\* Math.round(a / b) for b > 0: halves round up
RoundDiv(a, b) == (2 * a + b) \div (2 * b)

\* Object.values(lineup).filter(Boolean).map(p => p.id), in position order
RECURSIVE LineupIdsFrom(_, _)
LineupIdsFrom(lineup, i) ==
    IF i > Len(PLAY_POSITIONS) THEN <<>>
    ELSE (IF lineup[PLAY_POSITIONS[i]] = None THEN <<>>
          ELSE <<lineup[PLAY_POSITIONS[i]][1].id>>) \o LineupIdsFrom(lineup, i + 1)

LineupIds(lineup) == LineupIdsFrom(lineup, 1)

\* p.predictions?.<stat>?.predicted_value || 0
StatValue(stat) == IF stat = None THEN 0 ELSE stat[1]

\* p.overall_confidence || 0.7, in tenths
ConfidenceOrDefault(c) == IF c = None \/ c[1] = 0 THEN 7 ELSE c[1]

\* SummarizeStep counting passing yards only
SummarizeStepPassingOnly(acc, p) ==
    IF p = None THEN acc
    ELSE LET td == StatValue(p[1].touchdowns)
             passY == StatValue(p[1].passing_yards)
         IN  [confidenceSum |-> acc.confidenceSum + ConfidenceOrDefault(p[1].overall_confidence),
              count |-> acc.count + 1,
              points |-> acc.points + 60 * td + 2 * passY,
              yards |-> acc.yards + passY]

\* one pass of the forEach in summarize; points in hundredths, touchdowns in
\* tenths, a fetch that failed (None) is skipped
SummarizeStep(acc, p) ==
    IF p = None THEN acc
    ELSE LET td == StatValue(p[1].touchdowns)
             passY == StatValue(p[1].passing_yards)
             rushY == StatValue(p[1].rushing_yards)
             recvY == StatValue(p[1].receiving_yards)
         IN  [confidenceSum |-> acc.confidenceSum + ConfidenceOrDefault(p[1].overall_confidence),
              count |-> acc.count + 1,
              points |-> acc.points + 60 * td + 2 * (passY + rushY + recvY),
              yards |-> acc.yards + passY + rushY + recvY]

RECURSIVE SummarizeFrom(_, _, _)
SummarizeFrom(acc, preds, i) ==
    IF i > Len(preds) THEN acc
    ELSE SummarizeFrom(SummarizeStep(acc, preds[i]), preds, i + 1)

\* summarize: avgConfidence in thousandths
Summarize(preds) ==
    LET t == SummarizeFrom([confidenceSum |-> 0, count |-> 0, points |-> 0, yards |-> 0], preds, 1)
    IN  [avgConfidence |-> IF t.count > 0 THEN (t.confidenceSum * 100) \div t.count ELSE 700,
         avgConfidenceRounded |-> IF t.count > 0 THEN RoundDiv(t.confidenceSum * 100, t.count) ELSE 700,
         points |-> t.points,
         yards |-> t.yards]

\* Strength with the two point totals exchanged
StrengthSwapped(own, opponent) ==
    (600 * own.avgConfidence + 400 * ((opponent.points * 1000) \div Max(100, own.points + 100))) \div 1000

\* avgConfidence * 0.6 + (points / Math.max(1, opponent.points + 1)) * 0.4,
\* in thousandths
Strength(own, opponent) ==
    (600 * own.avgConfidence + 400 * ((own.points * 1000) \div Max(100, opponent.points + 100))) \div 1000

\* 10000 / (1 + exp(-z)) for z = 0.0, 0.1, ..., 4.0
SigmoidTable ==
    <<5000, 5250, 5498, 5744, 5987, 6225, 6457, 6682, 6900, 7109, 7311, 7503, 7685, 7858,
      8022, 8176, 8320, 8455, 8581, 8699, 8808, 8909, 9002, 9089, 9168, 9241, 9309, 9370,
      9427, 9478, 9526, 9569, 9608, 9644, 9677, 9707, 9734, 9759, 9781, 9802, 9820>>

\* 1 / (1 + Math.exp(-z)) in ten-thousandths, z in thousandths: the table,
\* interpolated linearly; beyond the table the value is above the 0.98 clamp
SigmoidOfZ(z) ==
    LET m == IF z >= 0 THEN z ELSE -z
        k == m \div 100
        r == m % 100
        v == IF k >= Len(SigmoidTable) - 1 THEN SigmoidTable[Len(SigmoidTable)]
             ELSE SigmoidTable[k + 1] + ((SigmoidTable[k + 2] - SigmoidTable[k + 1]) * r) \div 100
    IN  IF z >= 0 THEN v ELSE 10000 - v

\* sigmoid = (x) => 1 / (1 + Math.exp(-6 * x)), x in thousandths
Sigmoid(x) == SigmoidOfZ(6 * x)

\* Math.max(0.02, Math.min(0.98, sigmoid(diff))), in ten-thousandths
ClampWinProbability(sig) == Max(200, Min(9800, sig))

\* LocalResult reporting the win probability as a fraction, not a percentage
LocalResultAsFraction(hPreds, aPreds) ==
    LET h == Summarize(hPreds)
        a == Summarize(aPreds)
        winProbability == ClampWinProbability(Sigmoid(Strength(h, a) - Strength(a, h)))
    IN  [winProbability |-> RoundDiv(winProbability, 1000),
         expectedPointsHome |-> RoundDiv(h.points, 10),
         expectedPointsAway |-> RoundDiv(a.points, 10),
         expectedYardsHome |-> h.yards,
         expectedYardsAway |-> a.yards,
         avgPlayerConfidenceHome |-> h.avgConfidenceRounded,
         avgPlayerConfidenceAway |-> a.avgConfidenceRounded]

\* the object localEvaluateLineup returns from its try block; winProbability
\* and the confidences in tenths of a percent, points in tenths
LocalResult(hPreds, aPreds) ==
    LET h == Summarize(hPreds)
        a == Summarize(aPreds)
        homeStrength == Strength(h, a)
        awayStrength == Strength(a, h)
        diff == homeStrength - awayStrength
        winProbability == ClampWinProbability(Sigmoid(diff))
    IN  [winProbability |-> RoundDiv(winProbability, 10),
         expectedPointsHome |-> RoundDiv(h.points, 10),
         expectedPointsAway |-> RoundDiv(a.points, 10),
         expectedYardsHome |-> h.yards,
         expectedYardsAway |-> a.yards,
         avgPlayerConfidenceHome |-> h.avgConfidenceRounded,
         avgPlayerConfidenceAway |-> a.avgConfidenceRounded]

\* WellFormed accepting any reply that is not null
WellFormedAnyReply(res) == res # None

\* res && res.winProbability != null; None stands for a call that threw
WellFormed(res) == res # None /\ "winProbability" \in DOMAIN res[1]

SetPlayHomeTeam(team) ==
    /\ playHomeTeam' = team
    /\ lastStep' = "select_team"
    /\ UNCHANGED <<playAwayTeam, homeLineup, awayLineup, evaluationResult, evaluatingLineup,
                   evalPc, evalHome, evalAway, evalRes, homePreds, resetSinceEvaluate,
                   dashboardVars>>

SetPlayAwayTeam(team) ==
    /\ playAwayTeam' = team
    /\ lastStep' = "select_team"
    /\ UNCHANGED <<playHomeTeam, homeLineup, awayLineup, evaluationResult, evaluatingLineup,
                   evalPc, evalHome, evalAway, evalRes, homePreds, resetSinceEvaluate,
                   dashboardVars>>

\* openPicker followed by assignPlayerToPosition
AssignPlayerToPosition(side, position, player) ==
    /\ IF side = "home" THEN playHomeTeam # NULL ELSE playAwayTeam # NULL
    /\ IF side = "home"
       THEN homeLineup' = [homeLineup EXCEPT ![position] = Some(player)] /\ UNCHANGED awayLineup
       ELSE awayLineup' = [awayLineup EXCEPT ![position] = Some(player)] /\ UNCHANGED homeLineup
    /\ lastStep' = "assign"
    /\ UNCHANGED <<playHomeTeam, playAwayTeam, evaluationResult, evaluatingLineup,
                   evalPc, evalHome, evalAway, evalRes, homePreds, resetSinceEvaluate,
                   dashboardVars>>

\* clearLineup emptying the home lineup only
clearLineupHomeOnly ==
    /\ homeLineup' = EmptyLineup
    /\ evaluationResult' = None
    /\ resetSinceEvaluate' = TRUE
    /\ lastStep' = IF evaluationResult # None /\ homeLineup # EmptyLineup /\ awayLineup # EmptyLineup
                   THEN "clear_lineup_discarded"
                   ELSE "clear_lineup"
    /\ UNCHANGED <<playHomeTeam, playAwayTeam, awayLineup, evaluatingLineup,
                   evalPc, evalHome, evalAway, evalRes, homePreds, dashboardVars>>

clearLineup ==
    /\ homeLineup' = EmptyLineup
    /\ awayLineup' = EmptyLineup
    /\ evaluationResult' = None
    /\ resetSinceEvaluate' = TRUE
    /\ lastStep' = IF evaluationResult # None /\ homeLineup # EmptyLineup /\ awayLineup # EmptyLineup
                   THEN "clear_lineup_discarded"
                   ELSE "clear_lineup"
    /\ UNCHANGED <<playHomeTeam, playAwayTeam, evaluatingLineup,
                   evalPc, evalHome, evalAway, evalRes, homePreds, dashboardVars>>

\* evaluateLineup up to its first await; the button is disabled while an
\* evaluation runs or a team is unselected
evaluateLineup ==
    /\ ~evaluatingLineup
    /\ playHomeTeam # NULL
    /\ playAwayTeam # NULL
    /\ evalPc = "idle"
    /\ evaluatingLineup' = TRUE
    /\ evaluationResult' = None
    /\ evalHome' = homeLineup
    /\ evalAway' = awayLineup
    /\ evalPc' = "server"
    /\ resetSinceEvaluate' = FALSE
    /\ lastStep' = "evaluate"
    /\ UNCHANGED <<playHomeTeam, playAwayTeam, homeLineup, awayLineup, evalRes, homePreds,
                   dashboardVars>>

\* apiEvaluateLineup settles: res = None when it threw
ServerSettles(res) ==
    /\ evalPc = "server"
    /\ IF WellFormed(res)
       THEN /\ evaluationResult' = res
            /\ evaluatingLineup' = FALSE
            /\ evalPc' = "idle"
            /\ evalHome' = EmptyLineup
            /\ evalAway' = EmptyLineup
            /\ evalRes' = None
            /\ lastStep' = "evaluated_by_server"
       ELSE /\ evalPc' = "local_home"
            /\ evalRes' = res
            /\ lastStep' = IF res = None THEN "server_failed" ELSE "server_malformed"
            /\ UNCHANGED <<evaluationResult, evaluatingLineup, evalHome, evalAway>>
    /\ UNCHANGED <<playHomeTeam, playAwayTeam, homeLineup, awayLineup, homePreds,
                   resetSinceEvaluate, dashboardVars>>

\* the home fetches settle: fetched[i] = None when the fetch for the i-th
\* assigned home player failed
HomeFetchesSettle(fetched) ==
    /\ evalPc = "local_home"
    /\ Len(fetched) = Len(LineupIds(evalHome))
    /\ homePreds' = fetched
    /\ evalPc' = "local_away"
    /\ lastStep' = "home_fetched"
    /\ UNCHANGED <<playHomeTeam, playAwayTeam, homeLineup, awayLineup, evaluationResult,
                   evaluatingLineup, evalHome, evalAway, evalRes, resetSinceEvaluate,
                   dashboardVars>>

\* AwayFetchesSettle without the finally block that clears the flag
AwayFetchesSettleKeepingFlag(fetched) ==
    /\ evalPc = "local_away"
    /\ Len(fetched) = Len(LineupIds(evalAway))
    /\ evaluationResult' = Some(LocalResult(homePreds, fetched))
    /\ evalPc' = "idle"
    /\ evalHome' = EmptyLineup
    /\ evalAway' = EmptyLineup
    /\ homePreds' = <<>>
    /\ evalRes' = None
    /\ lastStep' = IF evalRes # None THEN "evaluated_after_malformed_reply" ELSE "evaluated_locally"
    /\ UNCHANGED <<playHomeTeam, playAwayTeam, homeLineup, awayLineup, evaluatingLineup,
                   resetSinceEvaluate, dashboardVars>>

\* the away fetches settle; localEvaluateLineup returns and evaluateLineup
\* stores the result and clears the flag
AwayFetchesSettle(fetched) ==
    /\ evalPc = "local_away"
    /\ Len(fetched) = Len(LineupIds(evalAway))
    /\ evaluationResult' = Some(LocalResult(homePreds, fetched))
    /\ evaluatingLineup' = FALSE
    /\ evalPc' = "idle"
    /\ evalHome' = EmptyLineup
    /\ evalAway' = EmptyLineup
    /\ homePreds' = <<>>
    /\ evalRes' = None
    /\ lastStep' = IF /\ evalRes = None
                      /\ Len(homePreds) >= 1
                      /\ Len(fetched) >= 1
                      /\ \A i \in 1..Len(homePreds) : homePreds[i] = None
                      /\ \A i \in 1..Len(fetched) : fetched[i] = None
                   THEN "evaluated_after_total_failure"
                   ELSE IF evalRes # None THEN "evaluated_after_malformed_reply"
                   ELSE "evaluated_locally"
    /\ UNCHANGED <<playHomeTeam, playAwayTeam, homeLineup, awayLineup, resetSinceEvaluate,
                   dashboardVars>>

\* ------------------------------------------------------ prediction cards
\* ConfidenceCircle: Math.max(0, Math.min(1, Number(confidence) || 0)), shown
\* as (pct * 100).toFixed(0) percent
ConfidenceCircle(confidence) == 10 * Max(0, Min(10, confidence))

\* statData.probability_over ? (statData.probability_over * 100).toFixed(0) : 'N/A'
ProbabilityOverText(probability_over) ==
    IF probability_over = 0 THEN None ELSE Some(10 * probability_over)

\* width: statData.confidence * 100 percent
ConfidenceBarWidth(confidence) == 10 * confidence

\* statData.confidence ? (statData.confidence * 100).toFixed(0) : 'N/A'
ConfidenceText(confidence) == IF confidence = 0 THEN None ELSE Some(10 * confidence)

\* the percentages one prediction card shows; None is the text N/A
PredictionCard(item) ==
    [overall_confidence |-> ConfidenceCircle(item.prediction.overall_confidence),
     probability_over |-> ProbabilityOverText(item.prediction.probability_over),
     confidence_bar |-> ConfidenceBarWidth(item.prediction.confidence),
     confidence |-> ConfidenceText(item.prediction.confidence)]

\* ------------------------------------------------------ message payloads
\* forecast records the server sends: one stat category (passing_yards)
ForecastValues == {100, 120}
ForecastPredictions == {Prediction(p, v, 8, 8, 7) : p \in PlayerIds, v \in ForecastValues}
ForecastItems == {Item(pr, "initial") : pr \in ForecastPredictions}

\* lists of forecast records as they arrive: the handlers store a list
\* without looking at its player identifiers, so a list may name a player twice
ForecastLists == UNION {[1..n -> ForecastItems] : n \in 0..MaxPlayerId}

LiveGameState ==
    [quarter |-> 1, time_remaining |-> "15:00",
     home_team |-> "Philadelphia Eagles", away_team |-> "Generic Opponents",
     home_score |-> 7, away_score |-> 0]

Scenarios == {[description |-> "Heavy rain"], [description |-> "Shootout"]}

\* message types the handler has no branch for
UnknownTypes == {"pong", "game_over"}

\* frames JSON.parse rejects
UnparseableFrames == {"", "{\"type\":", "pong"}

\* the two scenario buttons
ScenarioTypes == {"weather_change", "high_scoring"}

\* what the question input may hold
Questions == {"", "   ", "Why?"}

FinishedGameState ==
    [quarter |-> 4, time_remaining |-> "0:00",
     home_team |-> "Philadelphia Eagles", away_team |-> "Generic Opponents",
     home_score |-> 7, away_score |-> 0]

\* forecast sets the chat runs against
ChatForecastLists ==
    {<<Item(Prediction(1, 100, 8, 8, 7), "initial")>>,
     <<Item(Prediction(2, 100, 8, 8, 7), "initial"), Item(Prediction(1, 100, 8, 8, 7), "initial")>>}

\* cedar_answer payloads: <<player_name, player_id, answer>>
CedarAnswers ==
    {<<Some(PlayerName(1)), 1, "Because.">>, <<None, 1, "Because.">>, <<None, 0, "">>}

\* --------------------------------------------------------- specifications
Connect == (\E transport \in BOOLEAN : Mount(transport)) \/ OnOpen

\* a stream of live_update events
NextEvents ==
    \/ Connect
    \/ \E e \in EventIds : OnLiveUpdate(Some(LiveGameState), Some(LiveEvent(e)), None, NULL)

SpecEvents == Init /\ [][NextEvents]_vars

\* game_initialized and live_update events that carry forecast records
NextForecast ==
    \/ Connect
    \/ \E l \in ForecastLists : OnGameInitialized(Some(LiveGameState), Some(l))
    \/ OnGameInitialized(Some(LiveGameState), None)
    \/ \E e \in {1, 2}, up \in ForecastPredictions :
          OnLiveUpdate(Some(LiveGameState), Some(LiveEvent(e)), Some(up), "live")
    \/ \E e \in {1, 2} : OnLiveUpdate(Some(LiveGameState), Some(LiveEvent(e)), None, NULL)

SpecForecast == Init /\ [][NextForecast]_vars

\* the game clock: tick, game_initialized and live_update with any game_state
NextGame ==
    \/ Connect
    \/ OnError
    \/ OnClose
    \/ \E gs \in GameStates : OnTick(Some(gs))
    \/ OnTick(None)
    \/ \E gs \in GameStates : OnGameInitialized(Some(gs), None)
    \/ \E gs \in GameStates : OnLiveUpdate(Some(gs), Some(LiveEvent(1)), None, NULL)
    \/ \E gs \in GameStates : OnLiveUpdate(Some(gs), None, None, NULL)
    \/ \E d \in UnparseableFrames : OnParseFailure(d)
    \/ ServerReceive

SpecGame == Init /\ [][NextGame]_vars

\* the same session when every connect that is possible is eventually made
SpecReconnect == Init /\ [][NextGame]_vars /\ SF_vars(Connect)

\* game states a replayed live_update may carry
ReplayGameStates == {LiveGameState, FinishedGameState}

\* live_update events that arrive more than once
NextReplay ==
    \/ Connect
    \/ \E l \in ChatForecastLists : OnGameInitialized(Some(LiveGameState), Some(l))
    \/ \E gs \in ReplayGameStates, e \in {1, 2}, up \in ForecastPredictions :
          OnLiveUpdate(Some(gs), Some(LiveEvent(e)), Some(up), "live")
    \/ \E gs \in ReplayGameStates, e \in {1, 2} :
          OnLiveUpdate(Some(gs), Some(LiveEvent(e)), None, NULL)

SpecReplay == Init /\ [][NextReplay]_vars

\* the session up to and beyond the unmount of the component; the buttons
\* exist only while it is mounted, and the messages are those whose handling
\* writes no React state
NextTeardown ==
    \/ Connect
    \/ OnError
    \/ OnClose
    \/ Unmount
    \/ \E t \in ScenarioTypes : ~unmounted /\ handleScenarioChange(t)
    \/ OnTick(Some(FinishedGameState))
    \/ OnTick(None)
    \/ \E d \in UnparseableFrames : OnParseFailure(d)
    \/ ServerReceive

SpecTeardown == Init /\ [][NextTeardown]_vars

\* scenario_update events under the virtual clock
NextScenario ==
    \/ Connect
    \/ \E sc \in Scenarios : OnScenarioUpdate(Some(sc), None)
    \/ \E sc \in Scenarios, l \in ForecastLists : OnScenarioUpdate(Some(sc), Some(l))
    \/ ScenarioTimeout
    \/ AdvanceClock

SpecScenario == Init /\ [][NextScenario]_vars

\* the three senders of outbound payloads over the life of the socket
NextSend ==
    \/ Connect
    \/ OnError
    \/ OnClose
    \/ OnTick(Some(FinishedGameState))
    \/ \E t \in ScenarioTypes : handleScenarioChange(t)
    \/ \E q \in Questions : SetCurrentQuestion(q)
    \/ handleChatSubmit
    \/ ServerReceive

SpecSend == Init /\ [][NextSend]_vars

\* scenario triggers and the scenario_update events that answer them
NextTrigger ==
    \/ Connect
    \/ \E t \in ScenarioTypes : handleScenarioChange(t)
    \/ ServerReceive
    \/ \E sc \in Scenarios, l \in ChatForecastLists : OnScenarioUpdate(Some(sc), Some(l))
    \/ \E sc \in Scenarios : OnScenarioUpdate(Some(sc), None)
    \/ ScenarioTimeout
    \/ AdvanceClock

SpecTrigger == Init /\ [][NextTrigger]_vars

\* questions and answers against a forecast set
NextChat ==
    \/ Connect
    \/ \E l \in ChatForecastLists : OnGameInitialized(Some(LiveGameState), Some(l))
    \/ \E p \in PlayerIds : SetSelectedPlayer(p)
    \/ SetCurrentQuestion("Why?")
    \/ handleChatSubmit
    \/ ServerReceive
    \/ \E m \in CedarAnswers : OnCedarAnswer(m[1], m[2], m[3])
    \/ \E t \in UnknownTypes : OnUnknownType(t)

SpecChat == Init /\ [][NextChat]_vars

\* the playground: teams, lineups and evaluations
TeamIds == {"PHI"}
RosterPlayers == {[id |-> 1]}
AssignablePositions == {"QB", "RB"}

\* per-player forecasts the prediction endpoint returns; touchdowns in tenths
PlayerForecasts ==
    {[overall_confidence |-> Some(9), touchdowns |-> Some(20), passing_yards |-> Some(250),
      rushing_yards |-> None, receiving_yards |-> None],
     [overall_confidence |-> Some(5), touchdowns |-> Some(5), passing_yards |-> None,
      rushing_yards |-> Some(60), receiving_yards |-> Some(20)],
     [overall_confidence |-> Some(0), touchdowns |-> None, passing_yards |-> None,
      rushing_yards |-> None, receiving_yards |-> Some(50)]}

FetchOutcomes == {None} \cup {Some(f) : f \in PlayerForecasts}
FetchResults == UNION {[1..n -> FetchOutcomes] : n \in 0..Cardinality(AssignablePositions)}

\* win probabilities the evaluation endpoint may reply with, in tenths of a percent
ServerWinProbabilities == {0, 635, 1000}

NextEval ==
    \/ \E t \in TeamIds : SetPlayHomeTeam(t)
    \/ \E t \in TeamIds : SetPlayAwayTeam(t)
    \/ \E side \in {"home", "away"}, pos \in AssignablePositions, pl \in RosterPlayers :
          AssignPlayerToPosition(side, pos, pl)
    \/ clearLineup
    \/ evaluateLineup
    \/ \E n \in ServerWinProbabilities : ServerSettles(Some([winProbability |-> n]))
    \/ ServerSettles(Some([detail |-> "Not Found"]))
    \/ ServerSettles(None)
    \/ \E f \in FetchResults : HomeFetchesSettle(f)
    \/ \E f \in FetchResults : AwayFetchesSettle(f)

SpecEval == Init /\ [][NextEval]_vars

\* the playground when either team may also be deselected, with one
\* position per side and one forecast per player
SettleFetchResults ==
    UNION {[1..n -> {None, Some(CHOOSE f \in PlayerForecasts : f.touchdowns = Some(20))}] :
              n \in 0..1}

Settles ==
    \/ ServerSettles(Some([winProbability |-> 635]))
    \/ ServerSettles(Some([detail |-> "Not Found"]))
    \/ ServerSettles(None)
    \/ \E f \in SettleFetchResults : HomeFetchesSettle(f)
    \/ \E f \in SettleFetchResults : AwayFetchesSettle(f)

NextEvaluating ==
    \/ \E t \in TeamIds \cup {NULL} : SetPlayHomeTeam(t)
    \/ \E t \in TeamIds \cup {NULL} : SetPlayAwayTeam(t)
    \/ \E side \in {"home", "away"}, pl \in RosterPlayers :
          AssignPlayerToPosition(side, "QB", pl)
    \/ clearLineup
    \/ evaluateLineup
    \/ Settles

\* every pending call of an evaluation in flight settles
SpecEvaluating == Init /\ [][NextEvaluating]_vars /\ WF_vars(Settles)

\* forecast records whose confidences and probability upstream got wrong
ConfidenceInputs == {-2, 0, 5, 10, 14}
DisplayPredictions ==
    {Prediction(1, 100, oc, c, po) :
        oc \in ConfidenceInputs, c \in ConfidenceInputs, po \in ConfidenceInputs}

NextDisplay ==
    \/ Connect
    \/ \E pr \in DisplayPredictions :
          OnGameInitialized(Some(LiveGameState), Some(<<Item(pr, "initial")>>))
    \/ \E pr \in DisplayPredictions :
          OnLiveUpdate(Some(LiveGameState), Some(LiveEvent(1)), Some(pr), "live")

SpecDisplay == Init /\ [][NextDisplay]_vars

\* ----------------------------------------------------------------- claims
\* C1: after any sequence of live_update events the retained live-event list
\* holds no two entries with the same identifier and at most 5 entries.
C1_LiveEventsDedupAndCap ==
    /\ Len(liveEvents) <= 5
    /\ \A i, j \in 1..Len(liveEvents) : i # j => liveEvents[i].id # liveEvents[j].id

\* a full window: more than 5 distinct events have not all been kept
C1_Witness == lastStep = "live_update" /\ Len(liveEvents) = 5

CountPlayer(l, p) == Cardinality({i \in 1..Len(l) : l[i].prediction.player_id = p})

\* C2: a live_update whose updated_prediction names a player already in the
\* forecast set replaces that player's record at the same index: the length
\* is kept, every other record keeps position and content, and the set then
\* holds exactly one record for the player, carrying the new prediction.
C2_ReplaceInPlace ==
    [][\A e \in {1, 2}, up \in ForecastPredictions :
          (/\ OnLiveUpdate(Some(LiveGameState), Some(LiveEvent(e)), Some(up), "live")
           /\ \E k \in 1..Len(predictions) : predictions[k].prediction.player_id = up.player_id)
          => /\ Len(predictions') = Len(predictions)
             /\ \A k \in 1..Len(predictions) :
                   IF predictions[k].prediction.player_id = up.player_id
                   THEN predictions'[k].prediction = up
                   ELSE predictions'[k] = predictions[k]
             /\ CountPlayer(predictions', up.player_id) = 1]_vars


\* C3: a live_update whose updated_prediction names a player that is not in
\* the forecast set leaves the forecast set unchanged.
C3_UnknownPlayerDropped ==
    [][\A e \in {1, 2}, up \in ForecastPredictions :
          (/\ OnLiveUpdate(Some(LiveGameState), Some(LiveEvent(e)), Some(up), "live")
           /\ \A k \in 1..Len(predictions) : predictions[k].prediction.player_id # up.player_id)
          => predictions' = predictions]_vars

\* an update for an unknown player was handled against a non-empty set
C3_Witness == lastStep = "live_update_dropped" /\ Len(predictions) >= 1

\* C4: a tick with quarter 4 and time_remaining "0:00" leaves GameState as it
\* was and issues one outbound game_reset request; any other tick carrying a
\* game_state replaces GameState with it.
C4_FinishedTickResets ==
    [][\A gs \in GameStates :
          OnTick(Some(gs))
          => IF gs.quarter = 4 /\ gs.time_remaining = "0:00"
             THEN /\ gameState' = gameState
                  /\ Len(outbox') = Len(outbox) + 1
                  /\ outbox'[Len(outbox')].type = "game_reset"
                  /\ SubSeq(outbox', 1, Len(outbox)) = outbox
             ELSE gameState' = Some(gs) /\ outbox' = outbox]_vars

\* a finished tick was handled and its reset request is on the wire
C4_Witness ==
    /\ lastStep = "tick_finished"
    /\ outbox # <<>>
    /\ outbox[Len(outbox)].type = "game_reset"

\* C5: the displayed GameState is never a finished snapshot (quarter 4 with
\* time_remaining "0:00").
C5_NeverFinishedSnapshot ==
    gameState # None
    => ~(gameState[1].quarter = 4 /\ gameState[1].time_remaining = "0:00")

\* C6: after a scenario_update the scenario stays visible until 5 seconds
\* after the most recent scenario_update; an earlier event's timer does not
\* clear it sooner.
C6_VisibleUntilFiveSecondsAfterLatest ==
    (lastScenarioAt >= 0 /\ clock < lastScenarioAt + 5) => scenario # None

AllFailed(fetched) == \A i \in 1..Len(fetched) : fetched[i] = None

\* C7: when the server evaluation call fails and every per-player forecast
\* fetch fails, evaluateLineup still completes: it stores a result whose
\* winProbability is in [2, 98] and clears the evaluating flag.
C7_TotalFailureStillEvaluates ==
    [][\A f \in FetchResults :
          (/\ evalPc = "local_away"
           /\ evalRes = None
           /\ AllFailed(homePreds)
           /\ AllFailed(f)
           /\ AwayFetchesSettle(f))
          => /\ evaluationResult' # None
             /\ evaluationResult'[1].winProbability \in 20..980
             /\ ~evaluatingLineup'
             /\ evalPc' = "idle"]_vars

\* an evaluation finished although the server call and a fetch on each side failed
C7_Witness ==
    /\ lastStep = "evaluated_after_total_failure"
    /\ evaluationResult # None
    /\ ~evaluatingLineup

\* C8: every EvaluationResult that evaluateLineup stores reports
\* winProbability as a percentage in [2, 98], whichever path produced it.
C8_StoredWinProbabilityInRange ==
    evaluationResult # None => evaluationResult[1].winProbability \in 20..980

\* C9: on the heuristic path, with the away roster fixed, adding a player to
\* home that strictly raises home's average confidence and adds non-negative
\* points never decreases the reported home win probability.
C9_HeuristicMonotone ==
    [][\A f \in FetchResults :
          (evalPc = "local_away" /\ AwayFetchesSettle(f))
          => \A p \in PlayerForecasts :
                LET before == Summarize(homePreds)
                    after == Summarize(Append(homePreds, Some(p)))
                IN  (after.avgConfidence > before.avgConfidence /\ after.points >= before.points)
                    => LocalResult(Append(homePreds, Some(p)), f).winProbability
                         >= evaluationResult'[1].winProbability]_vars

\* a heuristic result strictly inside the clamp, with points on both sides
C9_Witness ==
    /\ lastStep = "evaluated_locally"
    /\ evaluationResult # None
    /\ evaluationResult[1].winProbability \in 21..979
    /\ evaluationResult[1].expectedPointsHome > 0
    /\ evaluationResult[1].expectedPointsAway > 0

InPercentRange(shown) == shown = None \/ shown[1] \in 0..100

\* C10: every confidence and probability a prediction card displays
\* (overall_confidence, per-stat probability_over and confidence) lies in
\* [0, 1], that is 0 to 100 percent, whatever upstream supplied.
C10_DisplayedValuesClamped ==
    \A i \in 1..Len(predictions) :
        LET card == PredictionCard(predictions[i])
        IN  /\ card.overall_confidence \in 0..100
            /\ InPercentRange(card.probability_over)
            /\ card.confidence_bar \in 0..100
            /\ InPercentRange(card.confidence)

UniquePlayers(l) ==
    \A i, j \in 1..Len(l) : i # j => l[i].prediction.player_id # l[j].prediction.player_id

\* C11: in every reachable state the active forecast set holds at most one
\* record per player identifier.
C11_UniquePlayerPerForecastSet == UniquePlayers(predictions)

\* C12: an outbound payload is transmitted only while the connection status
\* is connected; in any other state a send changes no state.
C12_SendOnlyWhileConnected ==
    [][/\ Len(outbox') > Len(outbox) => (isConnected /\ socket = "open")
       /\ \A t \in ScenarioTypes :
             (handleScenarioChange(t) /\ ~isConnected)
             => UNCHANGED <<dashboardVars, playgroundVars>>
       /\ (handleChatSubmit /\ ~isConnected) => UNCHANGED <<dashboardVars, playgroundVars>>]_vars

\* a send was attempted on a socket that exists but is not open
C12_Witness ==
    /\ lastStep = "scenario_change_not_sent"
    /\ wsRef # NULL
    /\ ~isConnected
    /\ outbox = <<>>

\* C13: a message that fails to parse is dropped: GameState, the forecast
\* set, the event list, the scenario, the conversation log and the connection
\* status are unchanged and the socket stays open for later messages.
C13_ParseFailureDropped ==
    [][\A d \in UnparseableFrames :
          OnParseFailure(d)
          => /\ UNCHANGED <<gameState, predictions, liveEvents, scenario, chatMessages,
                            isConnected, wsRef, ws, outbox>>
             /\ socket' = "open"]_vars

\* an unparseable frame was dropped on a connection that has state to lose
C13_Witness ==
    /\ lastStep = "parse_failed"
    /\ isConnected
    /\ socket = "open"
    /\ liveEvents # <<>>
    /\ gameState # Some(initialGameState)

\* C14: game_initialized replaces GameState with the message's game_state and
\* replaces the whole forecast set with initial_predictions when the list is
\* present and non-empty; an absent or empty list leaves the set unchanged.
C14_GameInitializedReplaces ==
    [][/\ \A l \in ForecastLists :
             OnGameInitialized(Some(LiveGameState), Some(l))
             => /\ gameState' = Some(LiveGameState)
                /\ predictions' = IF Len(l) > 0 THEN l ELSE predictions
       /\ OnGameInitialized(Some(LiveGameState), None)
          => /\ gameState' = Some(LiveGameState)
             /\ predictions' = predictions]_vars

\* a non-empty forecast set was replaced by a different list
C14_Witness ==
    /\ lastStep = "game_initialized_replaced"
    /\ Len(predictions) = 1
    /\ gameState = Some(LiveGameState)

\* C15: scenario_update stores the message's scenario and, when
\* updated_predictions is present (an empty list included), replaces the whole
\* forecast set with it; when it is absent the forecast set is unchanged.
C15_ScenarioUpdateReplaces ==
    [][/\ \A sc \in Scenarios, l \in ForecastLists :
             OnScenarioUpdate(Some(sc), Some(l))
             => scenario' = Some(sc) /\ predictions' = l
       /\ \A sc \in Scenarios :
             OnScenarioUpdate(Some(sc), None)
             => scenario' = Some(sc) /\ predictions' = predictions]_vars

\* an empty updated_predictions list replaced a non-empty forecast set
C15_Witness ==
    /\ lastStep = "scenario_update_emptied"
    /\ predictions = <<>>
    /\ scenario # None

\* C16: the assistant message appended for a cedar_answer carries the
\* message's player_name if present; otherwise the name of the record in the
\* current forecast set that player_id matches; otherwise none.
C16_AnswerDisplayName ==
    [][\A m \in CedarAnswers :
          OnCedarAnswer(m[1], m[2], m[3])
          => chatMessages'[Len(chatMessages')].playerName =
                IF m[1] # None THEN m[1]
                ELSE IF m[2] # 0 THEN FindPlayerName(predictions, m[2])
                ELSE None]_vars

\* C17: the composing flag goes from set to cleared only in the handling of
\* the cedar_answer that answers the most recently submitted question: no
\* question is left unanswered at that point.
C17_FlagClearedByMatchingAnswer ==
    [][(isAssistantThinking /\ ~isAssistantThinking')
          => (lastStep' = "cedar_answer" /\ unanswered' = 0)]_vars

\* C18: the server's result is stored as-is exactly when the call returned a
\* reply with a win probability; after a failed call or a reply without one
\* the stored result is the local heuristic's.
C18_ServerFirstThenHeuristic ==
    [][/\ \A n \in ServerWinProbabilities :
             ServerSettles(Some([winProbability |-> n]))
             => evaluationResult' = Some([winProbability |-> n]) /\ evalPc' = "idle"
       /\ ServerSettles(Some([detail |-> "Not Found"]))
          => evaluationResult' = None /\ evalPc' = "local_home"
       /\ ServerSettles(None)
          => evaluationResult' = None /\ evalPc' = "local_home"
       /\ \A f \in FetchResults :
             (evalPc = "local_away" /\ AwayFetchesSettle(f))
             => /\ ~WellFormed(evalRes)
                /\ evaluationResult' = Some(LocalResult(homePreds, f))
       /\ (evaluationResult' # evaluationResult /\ evaluationResult' # None)
          => evalPc \in {"server", "local_away"}]_vars

\* the heuristic's result was stored after a reply without a win probability
C18_Witness ==
    /\ lastStep = "evaluated_after_malformed_reply"
    /\ evaluationResult # None
    /\ ~evaluatingLineup

\* C19: after a finished tick has been handled, the next GameState applied
\* has quarter 1 and zero scores for both sides.
C19_NextAppliedIsInitial ==
    [][(awaitingReset /\ ~awaitingReset')
          => /\ gameState' # None
             /\ gameState'[1].quarter = 1
             /\ gameState'[1].home_score = 0
             /\ gameState'[1].away_score = 0]_vars

\* C20: the game_reset request issued for a finished tick carries quarter 1,
\* zero scores and the home and away teams of the tick's game_state.
C20_ResetKeepsTeams ==
    [][\A gs \in GameStates :
          (IsFinished(gs) /\ OnTick(Some(gs)))
          => LET data == outbox'[Len(outbox')].data
             IN  /\ data.quarter = 1
                 /\ data.home_score = 0
                 /\ data.away_score = 0
                 /\ data.home_team = gs.home_team
                 /\ data.away_team = gs.away_team]_vars

\* C21: after the connection has closed or errored and the status is
\* disconnected, the connection is established again by a later connect: the
\* status becomes connected once more.
C21_ReconnectAfterClose ==
    (socket \in {"errored", "closed"} /\ ~isConnected) ~> isConnected

\* C22: a live_update whose event identifier is already retained leaves the
\* event list exactly as it was, while GameState is replaced and the
\* updated_prediction of the message is applied.
C22_DuplicateEventKeepsList ==
    [][/\ \A gs \in ReplayGameStates, e \in {1, 2}, up \in ForecastPredictions :
             (/\ HasEvent(liveEvents, e)
              /\ OnLiveUpdate(Some(gs), Some(LiveEvent(e)), Some(up), "live"))
             => /\ liveEvents' = liveEvents
                /\ gameState' = Some(gs)
                /\ predictions' = ReplacePrediction(predictions, up, "live")
       /\ \A gs \in ReplayGameStates, e \in {1, 2} :
             (/\ HasEvent(liveEvents, e)
              /\ OnLiveUpdate(Some(gs), Some(LiveEvent(e)), None, NULL))
             => /\ liveEvents' = liveEvents
                /\ gameState' = Some(gs)
                /\ predictions' = predictions]_vars

\* a replayed event replaced a forecast record while two events are retained
C22_Witness ==
    /\ lastStep = "live_update_duplicate_replaced"
    /\ Len(liveEvents) = 2
    /\ \E k \in 1..Len(predictions) : predictions[k].explanation = "live"

\* C23: a live_update with a new identifier puts its event at index 0,
\* followed by the previously retained events in their previous order; only
\* the oldest entry is dropped when the list would exceed 5.
C23_NewestFirst ==
    [][\A e \in EventIds :
          (/\ ~HasEvent(liveEvents, e)
           /\ OnLiveUpdate(Some(LiveGameState), Some(LiveEvent(e)), None, NULL))
          => /\ liveEvents'[1].id = e
             /\ Len(liveEvents') = (IF Len(liveEvents) < 5 THEN Len(liveEvents) + 1 ELSE 5)
             /\ \A i \in 2..Len(liveEvents') : liveEvents'[i] = liveEvents[i - 1]]_vars

\* a sixth distinct event pushed the oldest one out of the full window
C23_Witness ==
    /\ lastStep = "live_update_evicted"
    /\ Len(liveEvents) = 5
    /\ liveEvents[1].id = 6

\* C24: the ScenarioEffect is absent once more than 5 seconds have passed
\* since the most recent scenario_update, and a clearing timer that fires on
\* an already-absent scenario changes nothing.
C24_ClearedWithinFiveSeconds ==
    /\ []((lastScenarioAt >= 0 /\ clock > lastScenarioAt + 5) => scenario = None)
    /\ [][(ScenarioTimeout /\ scenario = None)
             => UNCHANGED <<scenario, predictions, gameState, liveEvents, connVars, outbox,
                            chatVars>>]_vars

\* the timer of the latest scenario_update fired on time and cleared it
C24_Witness ==
    /\ lastStep = "scenario_timeout"
    /\ scenario = None
    /\ timers = <<>>
    /\ clock = lastScenarioAt + 5

\* C25: every cedar_answer that is handled appends exactly one assistant
\* message at the end of the conversation log and clears the composing flag,
\* also when its player is not the selected one; earlier entries are kept in
\* place.
C25_AnswerAppended ==
    [][\A m \in CedarAnswers :
          OnCedarAnswer(m[1], m[2], m[3])
          => /\ Len(chatMessages') = Len(chatMessages) + 1
             /\ SubSeq(chatMessages', 1, Len(chatMessages)) = chatMessages
             /\ chatMessages'[Len(chatMessages')].type = "assistant"
             /\ chatMessages'[Len(chatMessages')].playerId = m[2]
             /\ ~isAssistantThinking']_vars

\* an answer about a player other than the selected one was appended after a question
C25_Witness ==
    /\ lastStep = "cedar_answer"
    /\ Len(chatMessages) >= 2
    /\ selectedPlayer # 0
    /\ chatMessages[Len(chatMessages)].playerId # 0
    /\ chatMessages[Len(chatMessages)].playerId # selectedPlayer
    /\ chatMessages[Len(chatMessages) - 1].type = "user"
    /\ ~isAssistantThinking

\* C26: submitting a non-empty question while connected appends a user
\* message, sets the composing flag and sends one cedar_question whose
\* player_id is the selected player when one is selected and otherwise the
\* player of the first record in the forecast set.
C26_QuestionSubmitted ==
    [][(/\ isConnected
        /\ Trim(currentQuestion) # ""
        /\ handleChatSubmit)
          => /\ Len(chatMessages') = Len(chatMessages) + 1
             /\ SubSeq(chatMessages', 1, Len(chatMessages)) = chatMessages
             /\ chatMessages'[Len(chatMessages')].type = "user"
             /\ chatMessages'[Len(chatMessages')].text = currentQuestion
             /\ isAssistantThinking'
             /\ Len(outbox') = Len(outbox) + 1
             /\ SubSeq(outbox', 1, Len(outbox)) = outbox
             /\ outbox'[Len(outbox')].type = "cedar_question"
             /\ outbox'[Len(outbox')].question = currentQuestion
             /\ outbox'[Len(outbox')].player_id =
                   (IF selectedPlayer # 0 THEN selectedPlayer
                    ELSE IF Len(predictions) > 0 THEN predictions[1].prediction.player_id
                    ELSE 0)]_vars

\* a question went out for a selected player who is not the first record
C26_Witness ==
    /\ lastStep = "chat_submitted"
    /\ selectedPlayer # 0
    /\ Len(predictions) = 2
    /\ predictions[1].prediction.player_id # selectedPlayer
    /\ outbox # <<>>
    /\ outbox[Len(outbox)].type = "cedar_question"
    /\ outbox[Len(outbox)].player_id = selectedPlayer
    /\ isAssistantThinking

\* C27: a message whose type is none of tick, game_initialized, live_update,
\* scenario_update, cedar_answer is ignored: GameState, the forecast set, the
\* event list, the scenario, the conversation log and the composing flag are
\* unchanged and the connection stays as it was.
C27_UnknownTypeIgnored ==
    [][\A t \in UnknownTypes :
          OnUnknownType(t)
          => UNCHANGED <<gameState, predictions, liveEvents, scenario, chatMessages,
                         isAssistantThinking, connVars, outbox>>]_vars

\* a message of unknown type was ignored while an answer was awaited
C27_Witness ==
    /\ lastStep = "unknown_type"
    /\ socket = "open"
    /\ isAssistantThinking
    /\ chatMessages # <<>>
    /\ predictions # <<>>
    /\ gameState = Some(LiveGameState)

\* C28: the connectivity status is disconnected at session start, becomes
\* connected exactly on the open event, is disconnected after every close
\* and error event, and no other event changes it.
C28_StatusFollowsSocketEvents ==
    /\ ~isConnected
    /\ [][/\ (isConnected' # isConnected) => lastStep' \in {"open", "close", "error"}
          /\ OnOpen => isConnected'
          /\ OnClose => ~isConnected'
          /\ OnError => ~isConnected']_vars

\* an error event on a connection that had been open and in use
C28_Witness ==
    /\ lastStep = "error"
    /\ ~isConnected
    /\ wsRef # NULL
    /\ outbox # <<>>

\* C29: triggering a scenario sends a scenario_change request whose data
\* carries the trigger's type tag and the severity 0.15 for the weather
\* trigger and 0.2 for the high-scoring trigger.
C29_ScenarioChangeRequest ==
    [][\A t \in ScenarioTypes :
          (CanSend /\ handleScenarioChange(t))
          => /\ Len(outbox') = Len(outbox) + 1
             /\ outbox'[Len(outbox')] =
                   [type |-> "scenario_change",
                    data |-> [type |-> t,
                              severity |-> IF t = "weather_change" THEN 15 ELSE 20]]]_vars

\* the weather trigger's request is on the wire
C29_Witness ==
    /\ lastStep = "scenario_change_sent"
    /\ outbox # <<>>
    /\ outbox[Len(outbox)].type = "scenario_change"
    /\ outbox[Len(outbox)].data.type = "weather_change"
    /\ outbox[Len(outbox)].data.severity = 15

C31_Yards(rec) ==
    (IF rec.passing_yards = None THEN 0 ELSE rec.passing_yards[1])
    + (IF rec.rushing_yards = None THEN 0 ELSE rec.rushing_yards[1])
    + (IF rec.receiving_yards = None THEN 0 ELSE rec.receiving_yards[1])

\* 6 x touchdowns + 0.02 x yards of one fetched record, in hundredths
C31_Points(rec) ==
    60 * (IF rec.touchdowns = None THEN 0 ELSE rec.touchdowns[1]) + 2 * C31_Yards(rec)

RECURSIVE C31_Total(_, _)
C31_Total(fetched, kind) ==
    IF fetched = <<>> THEN 0
    ELSE (IF Head(fetched) = None THEN 0
          ELSE IF kind = "points" THEN C31_Points(Head(fetched)[1])
          ELSE C31_Yards(Head(fetched)[1]))
         + C31_Total(Tail(fetched), kind)

C31_Assigned(lineup) == Cardinality({pos \in DOMAIN lineup : lineup[pos] # None})

\* C31: in the local heuristic each side's points are the sum, over the
\* players assigned in that side's lineup whose forecast record is available,
\* of 6 x predicted touchdowns + 0.02 x (passing + rushing + receiving yards),
\* and its yards the sum of the three yardages; an absent category counts as
\* 0 and empty positions contribute nothing.
C31_PointsAndYardsAreSums ==
    [][\A f \in FetchResults :
          (evalPc = "local_away" /\ AwayFetchesSettle(f))
          => /\ Len(homePreds) = C31_Assigned(evalHome)
             /\ Len(f) = C31_Assigned(evalAway)
             /\ 10 * evaluationResult'[1].expectedPointsHome = C31_Total(homePreds, "points")
             /\ 10 * evaluationResult'[1].expectedPointsAway = C31_Total(f, "points")
             /\ evaluationResult'[1].expectedYardsHome = C31_Total(homePreds, "yards")
             /\ evaluationResult'[1].expectedYardsAway = C31_Total(f, "yards")]_vars

\* two home players with different categories present (17.0 + 4.6 points,
\* 250 + 80 yards) against one away player with receiving yards only
C31_Witness ==
    /\ lastStep \in {"evaluated_locally", "evaluated_after_malformed_reply"}
    /\ evaluationResult # None
    /\ "expectedYardsHome" \in DOMAIN evaluationResult[1]
    /\ evaluationResult[1].expectedPointsHome = 216
    /\ evaluationResult[1].expectedYardsHome = 330
    /\ evaluationResult[1].expectedPointsAway = 10
    /\ evaluationResult[1].expectedYardsAway = 50

\* C32: a lineup reset leaves every position of both lineups empty and the
\* EvaluationResult absent, whatever the state before it; the selected teams
\* are unchanged.
C32_ResetEmptiesBothLineups ==
    [][clearLineup
       => /\ \A pos \in DOMAIN homeLineup' : homeLineup'[pos] = None
          /\ \A pos \in DOMAIN awayLineup' : awayLineup'[pos] = None
          /\ DOMAIN homeLineup' = DOMAIN homeLineup
          /\ DOMAIN awayLineup' = DOMAIN awayLineup
          /\ evaluationResult' = None
          /\ UNCHANGED <<playHomeTeam, playAwayTeam>>]_vars

\* a reset that discarded a stored result and players on both sides
C32_Witness ==
    /\ lastStep = "clear_lineup_discarded"
    /\ homeLineup = EmptyLineup
    /\ awayLineup = EmptyLineup
    /\ evaluationResult = None
    /\ playHomeTeam # NULL
    /\ playAwayTeam # NULL

\* C33: after a lineup reset the EvaluationResult stays absent until a new
\* evaluation is requested, also when an evaluation that was started before
\* the reset completes after it.
C33_ResultAbsentAfterReset == resetSinceEvaluate => evaluationResult = None

\* C34: a recognised message whose handling raises part-way, such as a
\* live_update without an event, is applied atomically: GameState, the
\* forecast set, the live-event list, the scenario and the conversation log
\* are all as before the message, and the connection stays open.
C34_RaisingMessageChangesNothing ==
    [][\A gs \in GameStates :
          OnLiveUpdate(Some(gs), None, None, NULL)
          => /\ UNCHANGED <<gameState, predictions, liveEvents, scenario, chatMessages>>
             /\ socket' = "open"]_vars

\* C35: every cedar_question sent carries a player_id that is either absent
\* or the identifier of a record in the forecast set at the time of sending,
\* also after the forecast set was replaced wholesale while a player was
\* selected.
C35_QuestionNamesKnownPlayer ==
    [][(handleChatSubmit /\ Len(outbox') = Len(outbox) + 1)
       => LET sent == outbox'[Len(outbox')]
          IN  /\ sent.type = "cedar_question"
              /\ \/ sent.player_id = 0
                 \/ \E k \in 1..Len(predictions) :
                       predictions[k].prediction.player_id = sent.player_id]_vars

\* C36: the composing flag is set and the user's message appended to the
\* conversation log only when a cedar_question was transmitted; a submit with
\* an empty or whitespace-only question, with no socket, or with a socket
\* that is not open changes nothing and sends nothing.
C36_ComposeOnlyWhenSent ==
    [][/\ (handleChatSubmit /\ (chatMessages' # chatMessages \/ isAssistantThinking' # isAssistantThinking))
          => /\ Len(outbox') = Len(outbox) + 1
             /\ outbox'[Len(outbox')].type = "cedar_question"
             /\ outbox'[Len(outbox')].question = currentQuestion
             /\ chatMessages' = Append(chatMessages, chatMessages'[Len(chatMessages')])
             /\ chatMessages'[Len(chatMessages')].type = "user"
             /\ chatMessages'[Len(chatMessages')].text = currentQuestion
             /\ isAssistantThinking'
       /\ (handleChatSubmit /\ (currentQuestion \in {"", "   "} \/ socket # "open"))
          => UNCHANGED <<chatMessages, isAssistantThinking, currentQuestion, selectedPlayer, outbox>>]_vars

\* a question typed after the socket closed was submitted and ignored, with
\* an earlier question still in the log
C36_Witness ==
    /\ lastStep = "chat_submit_ignored"
    /\ currentQuestion = "Why?"
    /\ socket = "closed"
    /\ Len(chatMessages) = 1
    /\ isAssistantThinking

\* C37: the evaluating flag is true exactly while an evaluation is in flight:
\* it is set when the evaluation starts, every evaluation whose pending calls
\* settle eventually stores a result and clears the flag, on the server path
\* and on the heuristic paths alike, and no evaluation starts while the flag
\* is set or a team is unselected.
C37_FlagTracksEvaluation ==
    /\ [](evaluatingLineup <=> evalPc # "idle")
    /\ [][(evalPc = "idle" /\ evalPc' # "idle")
           => /\ ~evaluatingLineup
              /\ playHomeTeam # NULL
              /\ playAwayTeam # NULL
              /\ evaluatingLineup']_vars
    /\ (evaluatingLineup ~> (~evaluatingLineup /\ evaluationResult # None))

\* an evaluation that fell back to the heuristic has stored its result and
\* cleared the flag, after a team was deselected while it ran
C37_Witness ==
    /\ lastStep \in {"evaluated_locally", "evaluated_after_malformed_reply",
                      "evaluated_after_total_failure"}
    /\ ~evaluatingLineup
    /\ evalPc = "idle"
    /\ evaluationResult # None
    /\ playHomeTeam = NULL

\* C38: on teardown the connection is closed: after the component is torn
\* down no socket stays connecting or open and no message is handled.
C38_TeardownClosesConnection ==
    /\ [](unmounted => socket \notin {"connecting", "open"})
    /\ [][unmounted => lastStep' \notin {"tick_finished", "tick_ignored", "parse_failed"}]_vars

====
